---- MODULE Spec2Model ----
(***************************************************************************)
(* The C backend of the Verve compiler (src/codegen/c.rs): CBackend lowers *)
(* a typed program tree to C text.  Text is modelled as a sequence of      *)
(* string fragments: every literal segment of a format string and every    *)
(* interpolated value is one fragment, so the concatenation of the         *)
(* fragments is the emitted text and textual order is fragment order.      *)
(***************************************************************************)
EXTENDS Integers, Sequences, FiniteSets, TLC

VARIABLES program,       \* the ast::Program handed to compile
          config,        \* CodegenConfig: [target_triple]
          host_windows,  \* cfg(target_os = "windows") of the compiler build
          file_id,       \* CBackend.file_id
          header,        \* CBackend.header
          body,          \* CBackend.body
          includes,      \* CBackend.includes
          variables,     \* CBackend.variables
          pc,            \* position inside compile
          error,         \* the Err(..) compile returned, if any
          output,        \* contents of output.c, <<>> while not written
          written,       \* TRUE once std::fs::write succeeded
          log            \* history: order of the lowering steps taken

vars == <<program, config, host_windows, file_id, header, body, includes,
          variables, pc, error, output, written, log>>

(***************************************************************************)
(* Options are sequences of length at most one.                            *)
(***************************************************************************)
None == <<>>
Some(x) == <<x>>

(***************************************************************************)
(* ast::Type                                                               *)
(***************************************************************************)
I32 == [k |-> "I32"]
Bool == [k |-> "Bool"]
String == [k |-> "String"]
Void == [k |-> "Void"]
RawPtr == [k |-> "RawPtr"]
Unknown == [k |-> "Unknown"]
Pointer(t) == [k |-> "Pointer", inner |-> t]

\* Type::is_pointer (declared in ast, used by the cast lowering)
is_pointer(ty) == ty.k \in {"Pointer", "RawPtr"}

RECURSIVE type_to_c(_)
\* type_to_c: the spelling it returns
type_to_c(ty) ==
  CASE ty.k = "I32" -> "int"
    [] ty.k = "Bool" -> "bool"
    [] ty.k = "String" -> "const char*"
    [] ty.k = "Void" -> "void"
    [] ty.k = "Pointer" -> type_to_c(ty.inner) \o "*"
    [] ty.k = "RawPtr" -> "void*"
    [] OTHER -> "/* UNSUPPORTED TYPE */"

RECURSIVE type_to_c_includes(_)
\* type_to_c: the includes it registers on the way
type_to_c_includes(ty) ==
  CASE ty.k = "Bool" -> {"<stdbool.h>"}
    [] ty.k = "Pointer" -> type_to_c_includes(ty.inner)
    [] OTHER -> {}

(***************************************************************************)
(* The part of the session the lowering functions read and write is        *)
(* threaded through them as a record st = [body, includes, variables, log].*)
(***************************************************************************)
Log(st, event) == [st EXCEPT !.log = Append(@, event)]

Push(st, text) == [st EXCEPT !.body = @ \o text]

Register(st, incs) == [st EXCEPT !.includes = @ \cup incs]

Insert(table, name, c_ty) ==
  [n \in (DOMAIN table) \cup {name} |-> IF n = name THEN c_ty ELSE table[n]]

NoError == [kind |-> "None"]

\* CompileError::CodegenError { message, span, file_id }; message keeps the
\* format string and its argument apart
CodegenError(fmt, arg, span) ==
  [kind |-> "CodegenError", message |-> [fmt |-> fmt, arg |-> arg],
   span |-> span, file_id |-> file_id]

Ok(code, st) == [status |-> "ok", code |-> code, st |-> st, error |-> NoError]

Err(e, st) ==
  [status |-> "err", code |-> <<>>, st |-> Log(st, [ev |-> "error"]), error |-> e]

\* unimplemented!()
Panic(st) ==
  [status |-> "panic", code |-> <<>>, st |-> Log(st, [ev |-> "panic"]),
   error |-> NoError]

RECURSIVE Join(_, _)
\* Vec<String>::join
Join(codes, sep) ==
  IF codes = <<>> THEN <<>>
  ELSE IF Len(codes) = 1 THEN codes[1]
  ELSE codes[1] \o <<sep>> \o Join(Tail(codes), sep)

Rev(s) == [i \in 1..Len(s) |-> s[Len(s) + 1 - i]]

RECURSIVE Flatten(_)
Flatten(ss) == IF ss = <<>> THEN <<>> ELSE Head(ss) \o Flatten(Tail(ss))

\* str::starts_with('{') on lowered text: the only fragment that begins with
\* an opening brace is the one that opens a block
starts_with_brace(code) == code # <<>> /\ Head(code) = "{\n"

\* str::ends_with(';') on lowered text: the only closing fragment that ends in
\* a semicolon is the one that closes a printf call
ends_with_semicolon(code) == code # <<>> /\ code[Len(code)] = ");"

op_str(op) ==
  CASE op = "Add" -> "+"
    [] op = "Sub" -> "-"
    [] op = "Mul" -> "*"
    [] op = "Div" -> "/"
    [] op = "Gt" -> ">"
    [] op = "Eq" -> "=="

\* the Variable Type Table lookup made by a print of a variable
lookup_type(table, var_name) ==
  IF var_name \in DOMAIN table
  THEN CASE table[var_name] = "int" -> I32
         [] table[var_name] = "bool" -> Bool
         [] table[var_name] = "const char*" -> String
         [] OTHER -> Unknown
  ELSE Unknown

\* a block that runs its deferred actions in registration order
defer_order_registration(defers) == defers

\* the order in which the collected deferred actions are emitted
defer_order(defers) == Rev(defers)

\* an arity check that only rejects the empty argument list
arity_ok_nonempty(args) == Len(args) >= 1

\* args.len() != 1
arity_ok(args) == Len(args) = 1

\* the type a print resolves for its operand
print_type(operand, table) ==
  IF operand.k = "Var" THEN lookup_type(table, operand.name) ELSE operand.ty

(***************************************************************************)
(* Expression and statement lowering.  Every function returns              *)
(* [status, code, st, error]: status "ok" with the lowered text, "err"     *)
(* with the CompileError (the ? operator hands it on unchanged), or        *)
(* "panic" for unimplemented!().                                           *)
(***************************************************************************)
RECURSIVE emit_expr(_, _), emit_stmt(_, _), emit_stmts(_, _), emit_args(_, _),
          safe_block_loop(_, _, _, _)

\* the ? operator: an Err (or a panic) ends the caller with the same result
Try(r, Continue(_)) == IF r.status # "ok" THEN r ELSE Continue(r)

\* emit_stmt, Stmt::Let: the type the initializer is inferred to have
inferred_type(expr) ==
  IF expr.k = "Var" /\ expr.name \in {"true", "false"} THEN Bool ELSE expr.ty

\* emit_stmt, Stmt::Let: the target type the declaration resolves
let_c_ty(s) ==
  IF s.ty # None THEN type_to_c(s.ty[1])
  ELSE IF inferred_type(s.expr) = Unknown THEN "int"
  ELSE type_to_c(inferred_type(s.expr))

let_c_ty_includes(s) ==
  IF s.ty # None THEN type_to_c_includes(s.ty[1])
  ELSE IF inferred_type(s.expr) = Unknown THEN {}
  ELSE type_to_c_includes(inferred_type(s.expr))

\* emit_stmt, Stmt::Let: the table entry written by variables.insert
record_variable(st, s) ==
  Log([st EXCEPT !.variables = Insert(@, s.name, let_c_ty(s))],
      [ev |-> "insert", name |-> s.name, c_ty |-> let_c_ty(s), init |-> s.expr.span])

\* a declaration that writes the table entry before it lowers the initializer
emit_let_insert_first(s, st) ==
  Try(emit_expr(s.expr, record_variable(Register(st, let_c_ty_includes(s)), s)),
      LAMBDA r : Ok(<<>>, Push(r.st, <<let_c_ty(s), " ", s.name, " = ">> \o r.code
                                       \o <<";\n">>)))

\* emit_stmt, Stmt::Let
emit_let(s, st) ==
  Try(emit_expr(s.expr, Register(st, let_c_ty_includes(s))),
      LAMBDA r : Ok(<<>>, record_variable(
                            Push(r.st, <<let_c_ty(s), " ", s.name, " = ">> \o r.code
                                         \o <<";\n">>), s)))

for_init_c_ty(i) == IF i.ty # None THEN type_to_c(i.ty[1]) ELSE "int"

for_init_includes(i) == IF i.ty # None THEN type_to_c_includes(i.ty[1]) ELSE {}

\* emit_stmt, Stmt::For: the initializer clause
emit_for_init(init, st) ==
  IF init = None THEN Ok(<<>>, st)
  ELSE CASE init[1].k = "Let" ->
              Try(emit_expr(init[1].expr, Register(st, for_init_includes(init[1]))),
                  LAMBDA r : Ok(<<>>, Push(r.st, <<for_init_c_ty(init[1]), " ",
                                                   init[1].name, " = ">> \o r.code)))
         [] init[1].k = "Expr" ->
              Try(emit_expr(init[1].expr, st), LAMBDA r : Ok(<<>>, Push(r.st, r.code)))
         [] OTHER -> Err(CodegenError("Unsupported for loop initializer", "", None), st)

\* emit_stmt, Stmt::For: an optional clause wrapped in parentheses
emit_for_clause(clause, absent, st) ==
  IF clause = None THEN Ok(<<>>, Push(st, absent))
  ELSE Try(emit_expr(clause[1], st),
           LAMBDA r : Ok(<<>>, Push(r.st, <<"(">> \o r.code \o <<")">>)))

\* emit_stmt, Stmt::Expr: how the lowered text is made a statement
expr_stmt_text(code) ==
  IF starts_with_brace(code) THEN code
  ELSE IF ~ends_with_semicolon(code) THEN code \o <<";\n">>
  ELSE code \o <<"\n">>

emit_stmt(stmt, st) ==
  CASE stmt.k = "Let" -> emit_let(stmt, Log(st, [ev |-> "stmt", k |-> stmt.k]))
    [] stmt.k = "Return" ->
         Try(emit_expr(stmt.expr, Log(st, [ev |-> "stmt", k |-> stmt.k])),
             LAMBDA r : Ok(<<>>, Push(r.st, <<"return ">> \o r.code \o <<";\n">>)))
    [] stmt.k = "Expr" ->
         Try(emit_expr(stmt.expr, Log(st, [ev |-> "stmt", k |-> stmt.k])),
             LAMBDA r : Ok(<<>>, Push(r.st, expr_stmt_text(r.code))))
    [] stmt.k = "While" ->
         Try(emit_expr(stmt.cond, Log(st, [ev |-> "stmt", k |-> stmt.k])),
             LAMBDA c :
               Try(emit_stmts(stmt.body,
                              Push(c.st, <<"while (">> \o c.code \o <<") {\n">>)),
                   LAMBDA b : Ok(<<>>, Push(b.st, <<"}\n">>))))
    [] stmt.k = "For" ->
         Try(emit_for_init(stmt.init,
                           Push(Log(st, [ev |-> "stmt", k |-> stmt.k]), <<"for (">>)),
             LAMBDA i :
               Try(emit_for_clause(stmt.cond, <<"1">>, Push(i.st, <<"; ">>)),
                   LAMBDA c :
                     Try(emit_for_clause(stmt.incr, <<>>, Push(c.st, <<"; ">>)),
                         LAMBDA n :
                           Try(emit_stmts(stmt.body, Push(n.st, <<") {\n">>)),
                               LAMBDA b : Ok(<<>>, Push(b.st, <<"}\n">>))))))
    [] OTHER -> Panic(Log(st, [ev |-> "stmt", k |-> stmt.k]))

\* "for stmt in .. { self.emit_stmt(stmt)?; }"
emit_stmts(stmts, st) ==
  IF stmts = <<>> THEN Ok(<<>>, st)
  ELSE Try(emit_stmt(Head(stmts), st), LAMBDA r : emit_stmts(Tail(stmts), r.st))

emit_stmt_to_string(stmt, st) ==
  Try(emit_stmt(stmt, [st EXCEPT !.body = <<>>]),
      LAMBDA r : Ok(r.st.body, [r.st EXCEPT !.body = st.body]))

\* emit_expr, Expr::Call: "for arg in args { args_code.push(self.emit_expr(arg)?); }"
\* code holds one lowered text per argument
emit_args(args, st) ==
  IF args = <<>> THEN Ok(<<>>, st)
  ELSE Try(emit_expr(Head(args), st),
           LAMBDA a : Try(emit_args(Tail(args), a.st),
                          LAMBDA rest : Ok(<<a.code>> \o rest.code, rest.st)))

\* emit_expr, Expr::SafeBlock: the text of the collected deferred actions
deferred_text(defers) ==
  Flatten([i \in 1..Len(defers) |-> defer_order(defers)[i] \o <<";\n">>])

\* emit_expr, Expr::SafeBlock: the loop over the block's statements and the
\* emission of the collected deferred actions
safe_block_loop(stmts, code, defers, st) ==
  IF stmts = <<>> THEN Ok(code \o deferred_text(defers) \o <<"}\n">>, st)
  ELSE IF Head(stmts).k = "Defer"
  THEN Try(emit_expr(Head(stmts).expr, st),
           LAMBDA r : safe_block_loop(Tail(stmts), code, Append(defers, r.code), r.st))
  ELSE Try(emit_stmt_to_string(Head(stmts), st),
           LAMBDA r : safe_block_loop(Tail(stmts), code \o r.code, defers, r.st))

\* emit_expr, Expr::Print: format specifier and argument for the resolved type
print_text(operand, expr_ty, value, st) ==
  CASE expr_ty.k = "I32" ->
         Ok(<<"printf(\"", "%d", "\\n\", ">> \o value \o <<");">>, st)
    [] expr_ty.k = "Bool" ->
         Ok(<<"printf(\"", "%s", "\\n\", ", "(">> \o value
              \o <<" ? \"true\" : \"false\")", ");">>, st)
    [] expr_ty.k = "String" ->
         Ok(<<"printf(\"", "%s", "\\n\", ">> \o value \o <<");">>, st)
    [] expr_ty.k \in {"Pointer", "RawPtr"} ->
         Ok(<<"printf(\"", "%\"PRIuPTR\"", "\\n\", ", "(uintptr_t)">> \o value
              \o <<");">>, Register(st, {"<inttypes.h>"}))
    [] OTHER ->
         Err(CodegenError("Cannot print type {}", expr_ty, Some(operand.span)), st)

\* emit_expr, Expr::Print
emit_print(e, st) ==
  Try(emit_expr(e.expr, st),
      LAMBDA v :
        print_text(e.expr, print_type(e.expr, v.st.variables), v.code,
                   Log(v.st, [ev |-> "print", operand |-> e.expr,
                              resolved |-> print_type(e.expr, v.st.variables)])))

\* emit_expr, Expr::IntrinsicCall
emit_intrinsic(e, st) ==
  CASE e.name = "__alloc" ->
         IF ~arity_ok(e.args)
         THEN Err(CodegenError("__alloc expects 1 argument", "", Some(e.span)), st)
         ELSE Try(emit_expr(e.args[1], st),
                  LAMBDA size : Ok(<<"malloc(">> \o size.code \o <<")">>, size.st))
    [] e.name = "__dealloc" ->
         IF ~arity_ok(e.args)
         THEN Err(CodegenError("__dealloc expects 1 argument", "", Some(e.span)), st)
         ELSE Try(emit_expr(e.args[1], st),
                  LAMBDA ptr : Ok(<<"free(">> \o ptr.code \o <<")">>, ptr.st))
    [] OTHER ->
         Err(CodegenError("Unknown intrinsic function: {}", e.name, Some(e.span)), st)

\* emit_expr, Expr::Cast: the spelling of the cast's target
cast_target_c(e) ==
  IF is_pointer(e.expr.ty) /\ e.target = I32 THEN "uintptr_t" ELSE type_to_c(e.target)

cast_includes(e) ==
  IF is_pointer(e.expr.ty) /\ e.target = I32 THEN {"<stdint.h>"}
  ELSE type_to_c_includes(e.target)

\* emit_expr without the history entry
lower_expr(e, st) ==
  CASE e.k = "Int" -> Ok(<<ToString(e.n)>>, st)
    [] e.k = "BinOp" ->
         Try(emit_expr(e.left, st),
             LAMBDA l : Try(emit_expr(e.right, l.st),
                            LAMBDA r : Ok(<<"(">> \o l.code \o <<" ", op_str(e.op), " ">>
                                            \o r.code \o <<")">>, r.st)))
    [] e.k = "Assign" ->
         Try(emit_expr(e.target, st),
             LAMBDA t : Try(emit_expr(e.value, t.st),
                            LAMBDA v : Ok(<<"(">> \o t.code \o <<" = ">> \o v.code
                                            \o <<")">>, v.st)))
    [] e.k = "Str" -> Ok(<<"\"", e.s, "\"">>, st)
    [] e.k = "Var" ->
         IF e.name \in {"true", "false"}
         THEN Ok(<<e.name>>, Register(st, {"<stdbool.h>"}))
         ELSE Ok(<<e.name>>, st)
    [] e.k = "Print" -> emit_print(e, st)
    [] e.k = "Call" ->
         Try(emit_args(e.args, st),
             LAMBDA a : Ok(<<e.name, "(">> \o Join(a.code, ", ") \o <<")">>, a.st))
    [] e.k = "IntrinsicCall" -> emit_intrinsic(e, st)
    [] e.k = "SafeBlock" -> safe_block_loop(e.stmts, <<"{\n">>, <<>>, st)
    [] e.k = "Deref" ->
         Try(emit_expr(e.expr, st), LAMBDA i : Ok(<<"(*">> \o i.code \o <<")">>, i.st))
    [] e.k = "Cast" ->
         Try(emit_expr(e.expr, st),
             LAMBDA c : Ok(<<"(", cast_target_c(e), ")(">> \o c.code \o <<")">>,
                           Register(c.st, cast_includes(e))))
    [] OTHER -> Err(CodegenError("Unsupported expression", "", Some(e.span)), st)

emit_expr(e, st) == lower_expr(e, Log(st, [ev |-> "expr", span |-> e.span]))

(***************************************************************************)
(* Globals, functions, the synthesized entry point, the header.            *)
(***************************************************************************)
is_constant_expr(expr) == expr.k \in {"Int", "Str"}

RECURSIVE emit_globals(_, _)
emit_globals(stmts, st) ==
  IF stmts = <<>> THEN Ok(<<>>, st)
  ELSE LET s == Head(stmts) IN
       IF s.k # "Let" THEN emit_globals(Tail(stmts), st)
       ELSE IF is_constant_expr(s.expr)
       THEN LET ty == IF s.ty # None THEN s.ty[1] ELSE I32
                v == emit_expr(s.expr, Register(st, type_to_c_includes(ty)))
            IN IF v.status # "ok" THEN v
               ELSE emit_globals(Tail(stmts),
                      Push(v.st, <<type_to_c(ty), " ", s.name, " = ">> \o v.code
                                   \o <<";\n">>))
       ELSE Err(CodegenError("Non-constant initializer for global '{}'", s.name,
                             Some(s.expr.span)), st)

has_main(functions) == \E i \in 1..Len(functions) : functions[i].name = "main"

\* cfg(target_os = "windows") selects the statement that waits for a key
idle_stmt == IF host_windows THEN "    system(\"pause\");\n" ELSE "    getchar();\n"

return_type_c(func) == IF func.name = "main" THEN "int" ELSE type_to_c(func.return_type)

return_type_includes(func) ==
  IF func.name = "main" THEN {} ELSE type_to_c_includes(func.return_type)

\* the parameter list of a signature: "<type> <name>" joined by ", "
params_c(func) ==
  Join([i \in 1..Len(func.params) |->
          <<type_to_c(func.params[i].ty), " ", func.params[i].name>>], ", ")

params_includes(func) ==
  UNION {type_to_c_includes(func.params[i].ty) : i \in 1..Len(func.params)}

signature_includes(func) == return_type_includes(func) \cup params_includes(func)

\* emit_function: whether the default "return 0;" is left out
last_is_return(func) ==
  func.body # <<>> /\ func.body[Len(func.body)].k = "Return"

\* emit_function: what follows the lowered body
function_tail(func) ==
  IF func.name = "main"
  THEN <<idle_stmt>> \o (IF ~last_is_return(func) THEN <<"    return 0;\n">> ELSE <<>>)
  ELSE IF func.return_type = Void THEN <<"    return;\n">> ELSE <<>>

emit_function(func, st) ==
  LET opened == Push(Register(st, signature_includes(func)),
                     <<return_type_c(func), " ", func.name, "(">> \o params_c(func)
                       \o <<") {\n">>)
      b == emit_stmts(func.body, opened)
  IN IF b.status # "ok" THEN b
     ELSE Ok(<<>>, Push(b.st, function_tail(func) \o <<"}\n\n">>))

\* emit_functions: the first loop, one forward declaration per function
forward_declarations(functions) ==
  Flatten([i \in 1..Len(functions) |->
             <<return_type_c(functions[i]), " ", functions[i].name, "(">>
               \o params_c(functions[i]) \o <<");\n">>])

RECURSIVE emit_function_list(_, _)
\* emit_functions: the second loop
emit_function_list(functions, st) ==
  IF functions = <<>> THEN Ok(<<>>, st)
  ELSE LET r == emit_function(Head(functions), st)
       IN IF r.status # "ok" THEN r ELSE emit_function_list(Tail(functions), r.st)

\* a backend that declares the functions only after it has defined them
emit_functions_declare_last(functions, st) ==
  Try(emit_function_list(functions,
        Register(st, UNION {signature_includes(functions[i]) : i \in 1..Len(functions)})),
      LAMBDA r : Ok(<<>>, Push(r.st, forward_declarations(functions) \o <<"\n">>)))

emit_functions(functions, st) ==
  LET incs == UNION {signature_includes(functions[i]) : i \in 1..Len(functions)}
  IN emit_function_list(functions,
       Push(Register(st, incs), forward_declarations(functions) \o <<"\n">>))

\* an entry point that lowers the declarations as well
is_entry_stmt_any(stmt) == TRUE

\* emit_main_if_missing: the statements the synthesized entry point lowers
is_entry_stmt(stmt) == stmt.k # "Let"

RECURSIVE emit_entry_stmts(_, _)
emit_entry_stmts(stmts, st) ==
  IF stmts = <<>> THEN Ok(<<>>, st)
  ELSE IF ~is_entry_stmt(Head(stmts)) THEN emit_entry_stmts(Tail(stmts), st)
  ELSE LET r == emit_stmt(Head(stmts), st)
       IN IF r.status # "ok" THEN r ELSE emit_entry_stmts(Tail(stmts), r.st)

emit_main_if_missing(prog, st) ==
  IF ~has_main(prog.functions)
  THEN LET b == emit_entry_stmts(prog.stmts, Push(st, <<"\nint main() {\n">>))
       IN IF b.status # "ok" THEN b
          ELSE Ok(<<>>, Push(b.st, <<idle_stmt, "    return 0;\n}\n">>))
  ELSE Ok(<<>>, st)

\* emit_header, for one iteration order of the include set
emit_header(order) ==
  <<"// Generated by Verve Compiler (target: ", config.target_triple, ")\n",
    "#include <stdio.h>\n#include <stdlib.h>\n">>
  \o Flatten([i \in 1..Len(order) |-> <<"#include ", order[i], "\n">>])
  \o <<"\n">>

\* HashSet::iter: every order of the set's elements is possible
iteration_orders(set) ==
  {f \in [1..Cardinality(set) -> set] : \A x \in set : \E i \in DOMAIN f : f[i] = x}

\* write_output: format!("{}{}", self.header, self.body)
full_output(h, b) == h \o b

\* a compile that ignores what a step returned
next_pc_ignore(r, then) == then

\* the ? after each step of compile
next_pc(r, then) ==
  CASE r.status = "ok" -> then
    [] r.status = "err" -> "failed"
    [] OTHER -> "panicked"

(***************************************************************************)
(* The input: ast::Program values.  Every expression node carries its span *)
(* (a number) and its attached semantic type.                              *)
(***************************************************************************)
EInt(n, span) == [k |-> "Int", n |-> n, span |-> span, ty |-> I32]
EStr(s, span) == [k |-> "Str", s |-> s, span |-> span, ty |-> String]
EVar(name, ty, span) == [k |-> "Var", name |-> name, span |-> span, ty |-> ty]
EBinOp(left, op, right, span, ty) ==
  [k |-> "BinOp", left |-> left, op |-> op, right |-> right, span |-> span, ty |-> ty]
EAssign(target, value, span) ==
  [k |-> "Assign", target |-> target, value |-> value, span |-> span, ty |-> value.ty]
EPrint(expr, span) == [k |-> "Print", expr |-> expr, span |-> span, ty |-> Void]
ECall(name, args, span, ty) ==
  [k |-> "Call", name |-> name, args |-> args, span |-> span, ty |-> ty]
EIntrinsicCall(name, args, span) ==
  [k |-> "IntrinsicCall", name |-> name, args |-> args, span |-> span, ty |-> RawPtr]
ESafeBlock(stmts, span) == [k |-> "SafeBlock", stmts |-> stmts, span |-> span, ty |-> Void]
EDeref(expr, span, ty) == [k |-> "Deref", expr |-> expr, span |-> span, ty |-> ty]
ECast(expr, target, span) ==
  [k |-> "Cast", expr |-> expr, target |-> target, span |-> span, ty |-> target]
\* an expression kind emit_expr has no arm for
EAddrOf(expr, span) ==
  [k |-> "AddrOf", expr |-> expr, span |-> span, ty |-> Pointer(expr.ty)]

SLet(name, ty, expr) == [k |-> "Let", name |-> name, ty |-> ty, expr |-> expr]
SReturn(expr) == [k |-> "Return", expr |-> expr]
SExpr(expr) == [k |-> "Expr", expr |-> expr]
SWhile(cond, stmts) == [k |-> "While", cond |-> cond, body |-> stmts]
SFor(init, cond, incr, stmts) ==
  [k |-> "For", init |-> init, cond |-> cond, incr |-> incr, body |-> stmts]
SDefer(expr) == [k |-> "Defer", expr |-> expr]

Param(name, ty) == [name |-> name, ty |-> ty]
Function(name, params, return_type, stmts) ==
  [name |-> name, params |-> params, return_type |-> return_type, body |-> stmts]
Program(stmts, functions) == [stmts |-> stmts, functions |-> functions]

MaxTop == 2
MaxBlock == 5
MaxArgs == 2
MaxPtrDepth == 1

SeqsUpTo(S, n) == UNION {[1..m -> S] : m \in 0..n}

\* top-level statements
TopPool ==
  { SLet("g", Some(I32), EInt(7, 1)),
    SLet("s", None, EStr("hi", 2)),
    SLet("b", Some(Bool), EVar("true", Bool, 3)),
    SExpr(EPrint(EVar("g", I32, 4), 5)),
    SExpr(ECall("tick", <<>>, 6, Void)),
    SExpr(EPrint(EInt(1, 7), 8)),
    SDefer(ECall("bye", <<>>, 9, Void)) }

Tick == Function("tick", <<>>, Void, <<>>)

\* function lists
FuncLists ==
  { <<>>,
    <<Function("main", <<>>, I32, <<SReturn(EInt(0, 10))>>)>>,
    <<Function("main", <<>>, Void, <<>>)>>,
    <<Function("main", <<>>, I32,
               <<SExpr(ECall("tick", <<>>, 11, Void)), SReturn(EInt(3, 12))>>)>>,
    <<Function("main", <<>>, I32,
               <<SReturn(EInt(3, 12)), SExpr(ECall("tick", <<>>, 11, Void))>>)>>,
    <<Tick, Function("main", <<>>, Void, <<SExpr(ECall("tick", <<>>, 11, Void))>>)>>,
    <<Function("main", <<>>, I32, <<SReturn(EInt(0, 10))>>), Tick>>,
    <<Function("add", <<Param("a", I32), Param("b", Bool)>>, I32,
               <<SReturn(EBinOp(EVar("a", I32, 13), "Add", EVar("b", I32, 14), 15, I32))>>)>>,
    <<Function("show", <<>>, Void,
               <<SLet("x", None, EVar("true", Unknown, 16)),
                 SExpr(EPrint(EVar("x", Bool, 17), 18))>>)>>,
    <<Function("count", <<>>, Void,
               <<SFor(Some(SLet("i", Some(I32), EInt(0, 19))),
                     Some(EBinOp(EInt(3, 20), "Gt", EVar("i", I32, 21), 22, Bool)),
                     Some(EAssign(EVar("i", I32, 23),
                                 EBinOp(EVar("i", I32, 24), "Add", EInt(1, 25), 26, I32), 27)),
                     <<SExpr(EPrint(EVar("i", I32, 28), 29))>>)>>)>>,
    <<Function("spin", <<Param("p", Pointer(I32))>>, Pointer(Bool),
               <<SWhile(EVar("true", Bool, 30),
                       <<SLet("n", None, ECast(EVar("p", Pointer(I32), 31), I32, 32)),
                         SExpr(EPrint(EVar("n", I32, 33), 34))>>),
                 SFor(None, None, None, <<>>),
                 SFor(Some(SExpr(ECall("tick", <<>>, 35, Void))), None, None, <<>>),
                 SReturn(ECast(EInt(0, 36), Pointer(Bool), 37))>>)>>,
    <<Tick, Function("flag", <<>>, Bool, <<SReturn(EVar("true", Bool, 44))>>)>>,
    <<Function("bad", <<>>, I32,
               <<SExpr(EAddrOf(EInt(1, 38), 39)), SReturn(EInt(1, 40))>>), Tick>>,
    <<Function("self", <<>>, Void, <<SLet("x", Some(I32), EPrint(EVar("x", I32, 41), 42))>>)>>,
    <<Function("loop", <<>>, Void, <<SFor(Some(SReturn(EInt(0, 43))), None, None, <<>>)>>)>>,
    <<Function("late", <<>>, Void, <<SDefer(ECall("bye", <<>>, 9, Void))>>)>> }

GeneralPrograms ==
  {Program(stmts, fns) : stmts \in SeqsUpTo(TopPool, MaxTop), fns \in FuncLists}

\* scoped blocks: every arrangement of deferred and plain statements
BlockPool ==
  { SDefer(ECall("a", <<>>, 50, Void)),
    SDefer(ECall("b", <<>>, 51, Void)),
    SDefer(EPrint(EInt(3, 52), 53)),
    SExpr(ECall("x", <<>>, 54, Void)),
    SLet("w", Some(I32), EInt(1, 55)) }

BlockPrograms ==
  {Program(<<>>, <<Function("scope", <<>>, Void, <<SExpr(ESafeBlock(stmts, 56))>>)>>) :
     stmts \in SeqsUpTo(BlockPool, MaxBlock)}

\* privileged built-in calls
ArgPool == {EInt(4, 60), EVar("p", RawPtr, 61), EAddrOf(EInt(1, 62), 63)}

IntrinsicNames == {"__alloc", "__dealloc", "__realloc"}

IntrinsicPrograms ==
  {Program(<<>>, <<Function("mem", <<Param("p", RawPtr)>>, Void,
                            <<SExpr(EIntrinsicCall(name, args, 64))>>)>>) :
     name \in IntrinsicNames, args \in SeqsUpTo(ArgPool, MaxArgs)}

\* prints of every type, of a declared variable and of another expression
RECURSIVE TypesUpTo(_)
TypesUpTo(depth) ==
  {I32, Bool, String, Void, RawPtr, Unknown}
    \cup (IF depth = 0 THEN {} ELSE {Pointer(t) : t \in TypesUpTo(depth - 1)})

PrintTypes == TypesUpTo(MaxPtrDepth)

PrintPrograms ==
  {Program(<<>>, <<Function("out", <<>>, Void,
                            <<SLet("v", Some(t), ECall("get", <<>>, 70, t)),
                              SExpr(EPrint(EVar("v", t, 71), 72))>>)>>) : t \in PrintTypes}
  \cup
  {Program(<<>>, <<Function("out", <<>>, Void,
                            <<SLet("v", None, ECall("get", <<>>, 70, t)),
                              SExpr(EPrint(EVar("v", t, 71), 72))>>)>>) : t \in PrintTypes}
  \cup
  {Program(<<>>, <<Function("out", <<>>, Void,
                            <<SExpr(EPrint(ECall("get", <<>>, 70, t), 72))>>)>>) :
     t \in PrintTypes}

Programs == GeneralPrograms \cup BlockPrograms \cup IntrinsicPrograms \cup PrintPrograms

(***************************************************************************)
(* One compilation session: CBackend::new, then compile.                   *)
(***************************************************************************)
Init ==
  /\ program \in Programs
  /\ config = [target_triple |-> "x86_64-unknown-linux-gnu"]
  /\ host_windows \in BOOLEAN
  /\ file_id = 1
  /\ header = <<>>
  /\ body = <<>>
  /\ includes = {}
  /\ variables = <<>>
  /\ pc = "emit_globals"
  /\ error = NoError
  /\ output = <<>>
  /\ written = FALSE
  /\ log = <<>>

Session == [body |-> body, includes |-> includes, variables |-> variables, log |-> log]

Commit(r, then) ==
  /\ body' = r.st.body
  /\ includes' = r.st.includes
  /\ variables' = r.st.variables
  /\ log' = r.st.log
  /\ error' = r.error
  /\ pc' = next_pc(r, then)
  /\ UNCHANGED <<program, config, host_windows, file_id, header, output, written>>

\* self.emit_globals(program)?
CompileGlobals ==
  /\ pc = "emit_globals"
  /\ Commit(emit_globals(program.stmts, Session), "emit_functions")

\* self.emit_functions(program)?
CompileFunctions ==
  /\ pc = "emit_functions"
  /\ Commit(emit_functions(program.functions, Session), "emit_main_if_missing")

\* self.emit_main_if_missing(program)?
CompileMain ==
  /\ pc = "emit_main_if_missing"
  /\ Commit(emit_main_if_missing(program, Session), "emit_header")

\* self.emit_header()
CompileHeader ==
  /\ pc = "emit_header"
  /\ \E order \in iteration_orders(includes) : header' = header \o emit_header(order)
  /\ pc' = "write_output"
  /\ UNCHANGED <<program, config, host_windows, file_id, body, includes, variables,
                 error, output, written, log>>

\* self.write_output()?; Ok(())
CompileWrite ==
  /\ pc = "write_output"
  /\ \E io_ok \in BOOLEAN :
       IF io_ok
       THEN /\ output' = full_output(header, body)
            /\ written' = TRUE
            /\ pc' = "done"
            /\ error' = error
       ELSE /\ error' = [kind |-> "Io"]
            /\ pc' = "failed"
            /\ UNCHANGED <<output, written>>
  /\ UNCHANGED <<program, config, host_windows, file_id, header, body, includes,
                 variables, log>>

Next ==
  \/ CompileGlobals
  \/ CompileFunctions
  \/ CompileMain
  \/ CompileHeader
  \/ CompileWrite

Spec == Init /\ [][Next]_vars

(***************************************************************************)
(* Properties.                                                             *)
(***************************************************************************)
Indices(text, fragment) == {i \in DOMAIN text : text[i] = fragment}

Occurs(text, fragment) == Indices(text, fragment) # {}

First(text, fragment) ==
  CHOOSE i \in Indices(text, fragment) : \A j \in Indices(text, fragment) : i <= j

Final(text, fragment) ==
  CHOOSE i \in Indices(text, fragment) : \A j \in Indices(text, fragment) : j <= i

Contains(text, part) ==
  \E i \in 1..(Len(text) - Len(part) + 1) : SubSeq(text, i, i + Len(part) - 1) = part

Fresh == [body |-> <<>>, includes |-> {}, variables |-> <<>>, log |-> <<>>]

\* the text of one statement, and of one expression, lowered on their own
StmtText(stmt) == emit_stmt_to_string(stmt, Fresh).code
ExprText(expr) == emit_expr(expr, Fresh).code

Plain(stmts) == SelectSeq(stmts, LAMBDA s : s.k # "Defer")
Deferred(stmts) == SelectSeq(stmts, LAMBDA s : s.k = "Defer")

IsBlockProgram ==
  /\ Len(program.functions) = 1
  /\ program.functions[1].name = "scope"

TheBlock == program.functions[1].body[1].expr.stmts

\* the block text the defer rule prescribes: the plain statements in source
\* order, then the deferred actions last-registered first, one statement each
BlockText(stmts) ==
  <<"{\n">>
  \o Flatten([i \in 1..Len(Plain(stmts)) |-> StmtText(Plain(stmts)[i])])
  \o Flatten([i \in 1..Len(Deferred(stmts)) |->
                ExprText(Deferred(stmts)[Len(Deferred(stmts)) + 1 - i].expr) \o <<";\n">>])
  \o <<"}\n">>

\* C1: a lowered scoped block holds its non-deferred statements in source
\* order, then its deferred actions in reverse registration order, each as a
\* statement of its own, right before the closing brace, wherever in the block
\* the deferred actions were registered.
C1_DeferredActionsRunLastInReverse ==
  (IsBlockProgram /\ pc = "emit_main_if_missing") =>
    /\ Cardinality(Indices(body, "{\n")) = 1
    /\ SubSeq(body, First(body, "{\n"), Len(body) - 2) = BlockText(TheBlock)
    /\ SubSeq(body, Len(body) - 1, Len(body)) = <<"    return;\n", "}\n\n">>

C1_Witness ==
  /\ IsBlockProgram
  /\ pc = "emit_main_if_missing"
  /\ Len(TheBlock) = 5
  /\ TheBlock[1].k = "Defer" /\ TheBlock[1].expr.span = 50
  /\ TheBlock[2].k = "Expr"
  /\ TheBlock[3].k = "Defer" /\ TheBlock[3].expr.span = 51
  /\ TheBlock[4].k = "Let"
  /\ TheBlock[5].k = "Defer" /\ TheBlock[5].expr.span = 53
  /\ First(body, "x") < First(body, "w")
  /\ First(body, "w") < First(body, "printf(\"")
  /\ First(body, "printf(\"") < First(body, "b")
  /\ First(body, "b") < First(body, "a")

MainIndex == CHOOSE i \in 1..Len(program.functions) : program.functions[i].name = "main"

MainFunction == program.functions[MainIndex]

\* the text of the definition of main: from the last fragment that names it
\* to the first function end after it
MainText ==
  LET start == Final(body, "main")
      stop == CHOOSE i \in Indices(body, "}\n\n") :
                /\ i > start
                /\ \A j \in Indices(body, "}\n\n") : j > start => i <= j
  IN SubSeq(body, start, stop)

\* the return statement that ends main
EndingReturn(text) ==
  IF Occurs(text, "    return 0;\n") THEN First(text, "    return 0;\n")
  ELSE Final(text, "return ")

\* C2: in a user-defined main the default "return 0;" is appended exactly when
\* the body does not end in a return, and in both cases the idle/wait
\* statement stands before the return statement that ends the function.
C2_IdleBeforeFinalReturn ==
  (has_main(program.functions) /\ pc = "emit_main_if_missing") =>
    /\ last_is_return(MainFunction) => ~Occurs(MainText, "    return 0;\n")
    /\ ~last_is_return(MainFunction) => Occurs(MainText, "    return 0;\n")
    /\ Occurs(MainText, idle_stmt)
    /\ First(MainText, idle_stmt) < EndingReturn(MainText)

EntryStmts == SelectSeq(program.stmts, LAMBDA s : s.k # "Let")

\* the text of the top-level statements that are no declarations, lowered in
\* source order by the session as it stands
EntryText == emit_stmts(EntryStmts, [Session EXCEPT !.body = <<>>]).st.body

\* C3: without a function named main, compile appends exactly one "int main()"
\* whose body is the lowering, in source order, of every top-level statement
\* that is no declaration, then the idle/wait statement, then "return 0;";
\* with a main, nothing is synthesized and no top-level statement is lowered.
C3_SynthesizedEntryPoint ==
  [][(pc = "emit_main_if_missing" /\ pc' = "emit_header") =>
       IF has_main(program.functions)
       THEN body' = body /\ log' = log
       ELSE /\ body' = body \o <<"\nint main() {\n">> \o EntryText
                            \o <<idle_stmt, "    return 0;\n}\n">>
            /\ Cardinality(Indices(body', "\nint main() {\n")) = 1]_vars

C3_Witness ==
  /\ pc = "emit_header"
  /\ ~has_main(program.functions)
  /\ Len(program.stmts) = 2
  /\ program.stmts[1].k = "Let"
  /\ program.stmts[2].k = "Expr"
  /\ Occurs(body, "\nint main() {\n")
  /\ body[Len(body)] = "    return 0;\n}\n"

Globals == SelectSeq(program.stmts, LAMBDA s : s.k = "Let")

Literal(expr) == expr.k \in {"Int", "Str"}

BadGlobals == {i \in 1..Len(Globals) : ~Literal(Globals[i].expr)}

FirstBadGlobal == CHOOSE i \in BadGlobals : \A j \in BadGlobals : i <= j

\* the type of a global: the declared one, else the type of its literal
GlobalType(s) == IF s.ty # None THEN s.ty[1] ELSE s.expr.ty

LiteralText(expr) ==
  IF expr.k = "Int" THEN <<ToString(expr.n)>> ELSE <<"\"", expr.s, "\"">>

GlobalText(s) ==
  <<type_to_c(GlobalType(s)), " ", s.name, " = ">> \o LiteralText(s.expr) \o <<";\n">>

GlobalsText(n) == Flatten([i \in 1..n |-> GlobalText(Globals[i])])

\* C4: every top-level declaration with an integer or string literal
\* initializer becomes a global of the mapped type holding the literal
\* unchanged; any other initializer ends compile with the non-constant
\* initializer error that names the global and carries the initializer's span,
\* and no function code follows.
C4_GlobalsAreConstant ==
  /\ pc = "emit_functions" => (BadGlobals = {} /\ body = GlobalsText(Len(Globals)))
  /\ (pc # "emit_globals" /\ BadGlobals # {}) =>
       /\ pc = "failed"
       /\ error = [kind |-> "CodegenError",
                   message |-> [fmt |-> "Non-constant initializer for global '{}'",
                                arg |-> Globals[FirstBadGlobal].name],
                   span |-> Some(Globals[FirstBadGlobal].expr.span),
                   file_id |-> file_id]
       /\ body = GlobalsText(FirstBadGlobal - 1)

IsPrintProgram ==
  /\ Len(program.functions) = 1
  /\ program.functions[1].name = "out"

PrintOperand ==
  program.functions[1].body[Len(program.functions[1].body)].expr.expr

PointerTyped(ty) == ty.k \in {"Pointer", "RawPtr"}

Printable(ty) == ty.k \in {"I32", "Bool", "String", "Pointer", "RawPtr"}

LoweringEnded == pc \notin {"emit_globals", "emit_functions"} /\ error.kind # "Io"

\* C5: a print whose operand has a pointer type, be the operand a variable
\* declared with that type or any other expression, is lowered with a cast
\* through uintptr_t, the unsigned-integer format and the fixed-width-integer
\* include; a print fails with "Cannot print type" only when the operand's
\* type is none of integer, boolean, string, pointer.
C5_PointerPrint ==
  (IsPrintProgram /\ LoweringEnded) =>
    /\ PointerTyped(PrintOperand.ty) =>
         /\ pc # "failed"
         /\ Contains(body, <<"printf(\"", "%\"PRIuPTR\"", "\\n\", ", "(uintptr_t)">>
                             \o ExprText(PrintOperand) \o <<");">>)
         /\ "<inttypes.h>" \in includes
    /\ (pc = "failed" /\ error.message.fmt = "Cannot print type {}") =>
         ~Printable(PrintOperand.ty)

IsIntrinsicProgram ==
  /\ Len(program.functions) = 1
  /\ program.functions[1].name = "mem"

TheCall == program.functions[1].body[1].expr

KnownIntrinsic == TheCall.name \in {"__alloc", "__dealloc"}

CFunction == IF TheCall.name = "__alloc" THEN "malloc(" ELSE "free("

ArgumentLowers == emit_expr(TheCall.args[1], Fresh).status = "ok"

IntrinsicErrors ==
  /\ (KnownIntrinsic /\ Len(TheCall.args) # 1) =>
       /\ pc = "failed"
       /\ error = [kind |-> "CodegenError",
                   message |-> [fmt |-> TheCall.name \o " expects 1 argument", arg |-> ""],
                   span |-> Some(TheCall.span), file_id |-> file_id]
  /\ ~KnownIntrinsic =>
       /\ pc = "failed"
       /\ error = [kind |-> "CodegenError",
                   message |-> [fmt |-> "Unknown intrinsic function: {}",
                                arg |-> TheCall.name],
                   span |-> Some(TheCall.span), file_id |-> file_id]
  /\ ~(KnownIntrinsic /\ Len(TheCall.args) = 1) =>
       \A i \in DOMAIN log : log[i].ev = "expr" => log[i].span = TheCall.span

\* C6 as stated: a privileged built-in call lowers successfully if and only
\* if it is __alloc or __dealloc with exactly one argument, giving malloc(arg)
\* or free(arg); any other arity or name fails with an error that names the
\* violation and carries the call's span, before any argument is lowered.
C6_IntrinsicIffNameAndArity ==
  (IsIntrinsicProgram /\ LoweringEnded) =>
    /\ pc # "failed" <=> (KnownIntrinsic /\ Len(TheCall.args) = 1)
    /\ pc # "failed" =>
         Contains(body, <<CFunction>> \o ExprText(TheCall.args[1]) \o <<")", ";\n">>)
    /\ IntrinsicErrors

\* C6, amended: a privileged built-in call lowers successfully if and only
\* if it is __alloc or __dealloc with exactly one argument and that argument
\* lowers successfully, giving malloc(arg) or free(arg); when the argument
\* does not lower, the call fails with the argument's error; any other arity
\* or name fails with an error that names the violation and carries the
\* call's span, before any argument is lowered.
C6_IntrinsicLowering ==
  (IsIntrinsicProgram /\ LoweringEnded) =>
    /\ pc # "failed" <=> (KnownIntrinsic /\ Len(TheCall.args) = 1 /\ ArgumentLowers)
    /\ pc # "failed" =>
         Contains(body, <<CFunction>> \o ExprText(TheCall.args[1]) \o <<")", ";\n">>)
    /\ (KnownIntrinsic /\ Len(TheCall.args) = 1 /\ ~ArgumentLowers) =>
         error = emit_expr(TheCall.args[1], Fresh).error
    /\ IntrinsicErrors

C6_Witness ==
  /\ IsIntrinsicProgram
  /\ pc = "done"
  /\ TheCall.name = "__alloc"
  /\ Len(TheCall.args) = 1
  /\ Contains(body, <<"malloc(", "4", ")", ";\n">>)

IncludeCount == Cardinality(includes)

\* the artifact after the header
Code == SubSeq(output, 3 * IncludeCount + 6, Len(output))

\* the end of the n-th statement terminator of the text (0 for n = 0)
RECURSIVE NthEnd(_, _, _)
NthEnd(text, n, from) ==
  IF n = 0 THEN from
  ELSE NthEnd(text, n - 1,
              CHOOSE i \in Indices(text, ";\n") :
                i > from /\ \A j \in Indices(text, ";\n") : j > from => i <= j)

GlobalsEnd == NthEnd(Code, Len(Globals), 0)

DeclarationsEnd == GlobalsEnd + Len(forward_declarations(program.functions))

\* C7: the written artifact holds, in this order, the banner, the two fixed
\* includes, every registered include exactly once, a blank line, the constant
\* globals, a forward declaration of every function, every function
\* definition, and last the synthesized entry point if there is one.
C7_ArtifactOrder ==
  written =>
    /\ SubSeq(output, 1, 4) =
         <<"// Generated by Verve Compiler (target: ", config.target_triple, ")\n",
           "#include <stdio.h>\n#include <stdlib.h>\n">>
    /\ \A j \in 1..IncludeCount :
         output[3 * j + 2] = "#include " /\ output[3 * j + 4] = "\n"
    /\ {output[3 * j + 3] : j \in 1..IncludeCount} = includes
    /\ output[3 * IncludeCount + 5] = "\n"
    /\ Code = body
    /\ \A i \in 1..GlobalsEnd :
         Code[i] \notin {"(", ");\n", ") {\n", "}\n\n", "\nint main() {\n"}
    /\ Cardinality(Indices(SubSeq(Code, 1, GlobalsEnd), " = ")) = Len(Globals)
    /\ SubSeq(Code, GlobalsEnd + 1, DeclarationsEnd)
         = forward_declarations(program.functions)
    /\ Indices(Code, ");\n") \subseteq (GlobalsEnd + 1)..DeclarationsEnd
    /\ Code[DeclarationsEnd + 1] = "\n"
    /\ Cardinality(Indices(Code, "}\n\n")) = Len(program.functions)
    /\ \A i \in Indices(Code, "}\n\n") : i > DeclarationsEnd + 1
    /\ Cardinality(Indices(Code, "\nint main() {\n"))
         = IF has_main(program.functions) THEN 0 ELSE 1
    /\ \A m \in Indices(Code, "\nint main() {\n") :
         /\ \A i \in Indices(Code, "}\n\n") : i < m
         /\ m > DeclarationsEnd + 1
         /\ Code[Len(Code)] = "    return 0;\n}\n"
    /\ has_main(program.functions) => Code[Len(Code)] = "}\n\n"

C7_Witness ==
  /\ written
  /\ Len(Globals) = 2
  /\ Len(program.functions) = 2
  /\ ~has_main(program.functions)
  /\ includes # {}

\* C8: a compilation failure is terminal: once a lowering step has reported
\* an error nothing further is lowered, the header is not assembled and the
\* artifact is never written; the artifact is written only when globals,
\* functions and the entry point all succeeded.
C8_FailureIsTerminal ==
  /\ \A i \in DOMAIN log : log[i].ev \in {"error", "panic"} => i = Len(log)
  /\ error.kind = "CodegenError" =>
       /\ pc = "failed"
       /\ log[Len(log)].ev = "error"
       /\ header = <<>>
       /\ ~written /\ output = <<>>
  /\ pc \in {"failed", "panicked"} => ~ENABLED Next
  /\ written =>
       /\ pc = "done"
       /\ error = NoError
       /\ \A i \in DOMAIN log : log[i].ev \notin {"error", "panic"}
       /\ output = header \o body

C8_Witness ==
  /\ pc = "failed"
  /\ error.kind = "CodegenError"
  /\ Len(program.functions) = 2
  /\ program.functions[1].name = "bad"
  /\ program.stmts # <<>>
  /\ ~Occurs(body, "return ")

DeclaredIn(stmts) ==
  {stmts[i].name : i \in {j \in DOMAIN stmts : stmts[j].k = "Let"}}
  \cup {stmts[i].init[1].name :
          i \in {j \in DOMAIN stmts :
                   /\ stmts[j].k = "For"
                   /\ stmts[j].init # None
                   /\ stmts[j].init[1].k = "Let"}}

\* C9: the Variable Type Table records every declaration that is lowered, be
\* it a top-level declaration, a declaration in a function body or the
\* initializer of a for loop: afterwards a lookup of its name finds its type.
C9_TableRecordsEveryDeclaration ==
  /\ pc = "emit_functions" => DeclaredIn(program.stmts) \subseteq DOMAIN variables
  /\ pc = "emit_main_if_missing" =>
       \A i \in DOMAIN program.functions :
         DeclaredIn(program.functions[i].body) \subseteq DOMAIN variables

Inserts == {i \in DOMAIN log : log[i].ev = "insert"}

Lowered(span) == {j \in DOMAIN log : log[j].ev = "expr" /\ log[j].span = span}

\* a declaration whose initializer prints the declared variable has been
\* reached: its initializer was lowered
IsSelfPrint ==
  /\ Len(program.functions) = 1
  /\ program.functions[1].name = "self"
  /\ Lowered(program.functions[1].body[1].expr.span) # {}

\* C10 as stated: a declaration's resolved type is in the Variable Type Table
\* before its initializer is lowered, so a print of the declared variable
\* inside the initializer finds that type.
C10_RecordedBeforeInitializer ==
  /\ \A i \in Inserts : \A j \in Lowered(log[i].init) : i < j
  /\ (IsSelfPrint /\ LoweringEnded) => pc # "failed"

\* C10, amended: a declaration's resolved type is put into the Variable Type
\* Table after its initializer has been lowered and the declaration emitted,
\* so a print of the declared variable inside the initializer does not find
\* that type: for a variable not declared before, it fails with "Cannot print
\* type" of the unknown type, and nothing is recorded.
C10_RecordedAfterInitializer ==
  /\ \A i \in Inserts : \E j \in Lowered(log[i].init) : j < i
  /\ (IsSelfPrint /\ LoweringEnded) =>
       /\ pc = "failed"
       /\ error.message.fmt = "Cannot print type {}"
       /\ error.message.arg = Unknown
       /\ "x" \notin DOMAIN variables

C10_Witness ==
  /\ IsSelfPrint
  /\ pc = "failed"
  /\ Inserts = {}

====
